---- MODULE Spec2Model ----
(***************************************************************************)
(* Model of the SQS messaging capability provider (sqs/src/main.rs).       *)
(*                                                                         *)
(* SqsProvider holds one shared map, actors: Arc<RwLock<HashMap<String,    *)
(* sqs::Client>>>.  The host runs put_link, delete_link, shutdown, publish *)
(* and request as concurrent tasks.  Every task is modelled by its program *)
(* counter; a step of the model is the code between two lock acquisitions  *)
(* or two awaits.  An unwrap() on None/Err is a panic: the task aborts and *)
(* its caller gets no RpcResult.                                           *)
(***************************************************************************)
EXTENDS Integers, Sequences, FiniteSets, TLC

\* ---------------------------------------------------------------- bounds
MaxClients == 2        \* sqs::Client values ever constructed
MaxQueues == 2         \* length of a list_queues listing
MaxMessages == 2       \* length of a receive_message batch

Tasks == {1, 2}        \* host calls that may be in flight together
Clients == 1..MaxClients
NoClient == 0
None == "None"

\* ------------------------------------------------------------ input sets
ActorIds == {"A", "B"}             \* identifiers the host supplies
Bodies == {"ok", "hi"}             \* message bodies
Subjects == {"hello", "s1"}        \* message subjects
QueueUrls == {"q1", "q2"}          \* queue urls the backend may list

DEFAULT_ACTOR_NAME == "pgray"

Keys == ActorIds \cup {DEFAULT_ACTOR_NAME}

RECURSIVE SeqsUpTo(_, _)
SeqsUpTo(S, n) ==
  IF n = 0 THEN {<<>>}
  ELSE LET shorter == SeqsUpTo(S, n - 1)
       IN  shorter \cup {Append(s, x) : s \in {q \in shorter : Len(q) = n - 1}, x \in S}

\* Outcomes of cli.list_queues().send().await: Err(_), Ok with queue_urls()
\* None, or Ok with a listing (possibly empty).
ListQueuesOutputs ==
  {[status |-> st, urls |-> <<>>] : st \in {"Err", "NoUrls"}}
    \cup {[status |-> "Ok", urls |-> u] : u \in SeqsUpTo(QueueUrls, MaxQueues)}

\* Outcomes of cli.send_message()...send().await
SendMessageOutputs == {"Ok", "Err"}

\* Outcomes of cli.receive_message()...send().await: Err(_), Ok with
\* messages() None, or Ok with a batch; a message is its body() (None = no body).
ReceiveMessageOutputs ==
  {[status |-> st, messages |-> <<>>] : st \in {"Err", "NoMessages"}}
    \cup {[status |-> "Ok", messages |-> m] : m \in SeqsUpTo(Bodies \cup {None}, MaxMessages)}

NotCalled == "NotCalled"

ReceiveNotCalled == [status |-> NotCalled, messages |-> <<>>]

VARIABLES
  actors,      \* the HashMap behind the RwLock: a function key -> client
  writer,      \* task holding the write guard, or 0
  readers,     \* tasks holding a read guard
  poisoned,    \* RwLock poison flag
  nextClient,  \* next sqs::Client to be constructed
  pc,          \* per task: position in its handler
  arg,         \* per task: the call and its arguments
  local,       \* per task: client, cli, qurls, qurl (dropped when the call ends)
  ret,         \* per task: what the caller gets
  net,         \* per task: backend calls issued and their outcomes
  hist         \* history of completed registry writes

vars == <<actors, writer, readers, poisoned, nextClient, pc, arg, local, ret, net, hist>>

\* -------------------------------------------------------------- HashMap
EmptyMap == [k \in {} |-> NoClient]

\* insert that keeps the value already stored under the key.
insert_keeps_old(m, k, v) ==
  [x \in (DOMAIN m) \cup {k} |-> IF x \in DOMAIN m THEN m[x] ELSE v]

insert(m, k, v) == [x \in (DOMAIN m) \cup {k} |-> IF x = k THEN v ELSE m[x]]

\* remove that forgets to take the entry out.
remove_keeps(m, k) == m

remove(m, k) == [x \in (DOMAIN m) \ {k} |-> m[x]]

\* clear that leaves the map as it is.
clear_keeps(m) == m

clear(m) == EmptyMap

get(m, k) == IF k \in DOMAIN m THEN m[k] ELSE NoClient

\* The key every handler uses, whatever identifier the host supplied.
\* PutLinkKey_host: the entry is stored under the host-supplied identifier.
PutLinkKey_host(actor_id) == actor_id

PutLinkKey(actor_id) == DEFAULT_ACTOR_NAME

DeleteLinkKey(actor_id) == DEFAULT_ACTOR_NAME

PublishKey(actor_id) == DEFAULT_ACTOR_NAME

RequestKey(actor_id) == DEFAULT_ACTOR_NAME

\* Body handed to send_message by publish.
PublishBody(body) == "ok"

\* ----------------------------------------------------------- task state
NoArg == [op |-> None, actor_id |-> None, subject |-> None, body |-> None]

NoLocal == [client |-> NoClient, cli |-> NoClient, qurls |-> <<>>, qurl |-> None]

NoReply == [subject |-> None, body |-> <<>>, reply_to |-> None]

Pending == [kind |-> "Pending", reply |-> NoReply]

NoNet == [found |-> "unknown", got |-> NoClient, cli |-> NoClient,
          list |-> 0, send |-> 0, recv |-> 0,
          listOut |-> NotCalled, sendOut |-> NotCalled, recvOut |-> ReceiveNotCalled,
          sentBody |-> None, sentQueue |-> None, recvQueue |-> None]

NoHist == [life |-> [a \in ActorIds |-> "never"],
           otherUp |-> [a \in ActorIds |-> FALSE],
           lastWrite |-> [a \in ActorIds |-> "none"],
           lastClient |-> [a \in ActorIds |-> NoClient],
           cleared |-> FALSE]

Init ==
  /\ actors = EmptyMap
  /\ writer = 0
  /\ readers = {}
  /\ poisoned = FALSE
  /\ nextClient = 1
  /\ pc = [t \in Tasks |-> "idle"]
  /\ arg = [t \in Tasks |-> NoArg]
  /\ local = [t \in Tasks |-> NoLocal]
  /\ ret = [t \in Tasks |-> Pending]
  /\ net = [t \in Tasks |-> NoNet]
  /\ hist = NoHist

\* RwLock::write() blocks until no guard is out; RwLock::read() until no
\* write guard is out.
CanWrite == writer = 0 /\ readers = {}

CanRead == writer = 0

Panic == [kind |-> "Panic", reply |-> NoReply]

\* The read guard of `{ self.actors.read().unwrap()...clone() }` is a
\* temporary: it is dropped at the end of that statement, before any await.
DropRead_holds(rs, t) == rs

DropRead(rs, t) == rs \ {t}

\* When unwrap() panics under the read guard, unwinding drops the guard.
UnwindRead_leaks(rs, t) == rs

UnwindRead(rs, t) == rs \ {t}

\* The poison flag after a panic under a read guard: an RwLock is poisoned
\* only by a panic under its write guard, so the flag stays as it is.
ReadGuardPanic_poisons(p) == TRUE

ReadGuardPanic(p) == p

\* The map after get() under a read guard: get borrows, the map is unchanged.
AfterGet_takes(m, k) == [x \in (DOMAIN m) \ {k} |-> m[x]]

AfterGet(m, k) == m

\* ---------------------------------------------------------------- calls
\* The host issues put_link(ld) with ld.actor_id = a.
CallPutLink(t) ==
  /\ pc[t] = "idle"
  /\ nextClient + Cardinality({u \in Tasks : pc[u] = "pl_load"}) <= MaxClients
  /\ \E a \in ActorIds :
       arg' = [arg EXCEPT ![t] = [NoArg EXCEPT !.op = "put_link", !.actor_id = a]]
  /\ pc' = [pc EXCEPT ![t] = "pl_load"]
  /\ UNCHANGED <<actors, writer, readers, poisoned, nextClient, local, ret, net, hist>>

CallDeleteLink(t) ==
  /\ pc[t] = "idle"
  /\ \E a \in ActorIds :
       arg' = [arg EXCEPT ![t] = [NoArg EXCEPT !.op = "delete_link", !.actor_id = a]]
  /\ pc' = [pc EXCEPT ![t] = "dl_lock"]
  /\ UNCHANGED <<actors, writer, readers, poisoned, nextClient, local, ret, net, hist>>

CallShutdown(t) ==
  /\ pc[t] = "idle"
  /\ arg' = [arg EXCEPT ![t] = [NoArg EXCEPT !.op = "shutdown"]]
  /\ pc' = [pc EXCEPT ![t] = "sd_lock"]
  /\ UNCHANGED <<actors, writer, readers, poisoned, nextClient, local, ret, net, hist>>

CallPublish(t, bodies) ==
  /\ pc[t] = "idle"
  /\ \E a \in ActorIds, b \in bodies :
       arg' = [arg EXCEPT ![t] = [NoArg EXCEPT !.op = "publish", !.actor_id = a, !.body = b]]
  /\ pc' = [pc EXCEPT ![t] = "pub_lock"]
  /\ UNCHANGED <<actors, writer, readers, poisoned, nextClient, local, ret, net, hist>>

CallRequest(t, subjects) ==
  /\ pc[t] = "idle"
  /\ \E a \in ActorIds, s \in subjects :
       arg' = [arg EXCEPT ![t] = [NoArg EXCEPT !.op = "request", !.actor_id = a, !.subject = s]]
  /\ pc' = [pc EXCEPT ![t] = "req_lock"]
  /\ UNCHANGED <<actors, writer, readers, poisoned, nextClient, local, ret, net, hist>>

\* ------------------------------------------------------------- history
\* hist records, per host-supplied actor identifier a:
\*   life[a]       "never" (no link-up yet), "up" (a link-up completed and no
\*                 link-down since), "down" (a link-down completed after it);
\*   otherUp[a]    while life[a] = "down": some link-up for another
\*                 identifier completed after a's link-down;
\*   lastWrite[a]  the last registry write made for a ("clear" by shutdown);
\*   lastClient[a] the client of that write when it is a link-up;
\* and cleared: a shutdown completed and no link-up completed after it.

\* A put_link for actor_id a has inserted client c.
HistPut(h, a, c) ==
  [h EXCEPT !.life[a] = "up",
            !.otherUp = [x \in ActorIds |-> x # a /\ h.life[x] = "down"],
            !.lastWrite[a] = "put",
            !.lastClient[a] = c,
            !.cleared = FALSE]

\* A delete_link for actor_id a has completed.
HistDelete(h, a) ==
  [h EXCEPT !.life[a] = IF h.life[a] = "never" THEN "never" ELSE "down",
            !.otherUp[a] = IF h.life[a] = "up" THEN FALSE ELSE h.otherUp[a],
            !.lastWrite[a] = "remove",
            !.lastClient[a] = NoClient]

\* A shutdown has completed.
HistShutdown(h) ==
  [h EXCEPT !.lastWrite = [x \in ActorIds |-> "clear"],
            !.lastClient = [x \in ActorIds |-> NoClient],
            !.cleared = TRUE]

\* ------------------------------------------------------------- put_link
\* let config = aws::from_env().load().await; let client = sqs::Client::new(&config);
PutLinkLoad(t) ==
  /\ pc[t] = "pl_load"
  /\ local' = [local EXCEPT ![t].client = nextClient]
  /\ nextClient' = nextClient + 1
  /\ pc' = [pc EXCEPT ![t] = "pl_lock"]
  /\ UNCHANGED <<actors, writer, readers, poisoned, arg, ret, net, hist>>

\* let mut update_map = self.actors.write().unwrap();
PutLinkWrite(t) ==
  /\ pc[t] = "pl_lock"
  /\ CanWrite
  /\ IF poisoned
       THEN /\ pc' = [pc EXCEPT ![t] = "done"]
            /\ ret' = [ret EXCEPT ![t] = Panic]
            /\ UNCHANGED writer
       ELSE /\ pc' = [pc EXCEPT ![t] = "pl_insert"]
            /\ writer' = t
            /\ UNCHANGED ret
  /\ UNCHANGED <<actors, readers, poisoned, nextClient, arg, local, net, hist>>

\* update_map.insert(DEFAULT_ACTOR_NAME.to_string(), client); Ok(true)
PutLinkInsert(t) ==
  /\ pc[t] = "pl_insert"
  /\ writer = t
  /\ actors' = insert(actors, PutLinkKey(arg[t].actor_id), local[t].client)
  /\ writer' = 0
  /\ ret' = [ret EXCEPT ![t] = [kind |-> "OkTrue", reply |-> NoReply]]
  /\ hist' = HistPut(hist, arg[t].actor_id, local[t].client)
  /\ pc' = [pc EXCEPT ![t] = "done"]
  /\ local' = [local EXCEPT ![t] = NoLocal]
  /\ UNCHANGED <<readers, poisoned, nextClient, arg, net>>

\* ---------------------------------------------------------- delete_link
\* let mut aw = self.actors.write().unwrap();
DeleteLinkWrite(t) ==
  /\ pc[t] = "dl_lock"
  /\ CanWrite
  /\ IF poisoned
       THEN /\ pc' = [pc EXCEPT ![t] = "done"]
            /\ ret' = [ret EXCEPT ![t] = Panic]
            /\ UNCHANGED writer
       ELSE /\ pc' = [pc EXCEPT ![t] = "dl_remove"]
            /\ writer' = t
            /\ UNCHANGED ret
  /\ UNCHANGED <<actors, readers, poisoned, nextClient, arg, local, net, hist>>

\* if aw.remove(&actor).is_some() { info!(..) }
DeleteLinkRemove(t) ==
  /\ pc[t] = "dl_remove"
  /\ writer = t
  /\ actors' = remove(actors, DeleteLinkKey(arg[t].actor_id))
  /\ writer' = 0
  /\ ret' = [ret EXCEPT ![t] = [kind |-> "Unit", reply |-> NoReply]]
  /\ hist' = HistDelete(hist, arg[t].actor_id)
  /\ pc' = [pc EXCEPT ![t] = "done"]
  /\ local' = [local EXCEPT ![t] = NoLocal]
  /\ UNCHANGED <<readers, poisoned, nextClient, arg, net>>

\* ------------------------------------------------------------- shutdown
\* let mut aw = self.actors.write().unwrap();
ShutdownWrite(t) ==
  /\ pc[t] = "sd_lock"
  /\ CanWrite
  /\ IF poisoned
       THEN /\ pc' = [pc EXCEPT ![t] = "done"]
            /\ ret' = [ret EXCEPT ![t] = Panic]
            /\ UNCHANGED writer
       ELSE /\ pc' = [pc EXCEPT ![t] = "sd_clear"]
            /\ writer' = t
            /\ UNCHANGED ret
  /\ UNCHANGED <<actors, readers, poisoned, nextClient, arg, local, net, hist>>

\* aw.clear(); Ok(())
ShutdownClear(t) ==
  /\ pc[t] = "sd_clear"
  /\ writer = t
  /\ actors' = clear(actors)
  /\ writer' = 0
  /\ ret' = [ret EXCEPT ![t] = [kind |-> "Ok", reply |-> NoReply]]
  /\ hist' = HistShutdown(hist)
  /\ pc' = [pc EXCEPT ![t] = "done"]
  /\ local' = [local EXCEPT ![t] = NoLocal]
  /\ UNCHANGED <<readers, poisoned, nextClient, arg, net>>

\* -------------------------------------------------------------- publish
\* self.actors.read().unwrap()
PublishRead(t) ==
  /\ pc[t] = "pub_lock"
  /\ CanRead
  /\ IF poisoned
       THEN /\ pc' = [pc EXCEPT ![t] = "done"]
            /\ ret' = [ret EXCEPT ![t] = Panic]
            /\ UNCHANGED readers
       ELSE /\ pc' = [pc EXCEPT ![t] = "pub_get"]
            /\ readers' = readers \cup {t}
            /\ UNCHANGED ret
  /\ UNCHANGED <<actors, writer, poisoned, nextClient, arg, local, net, hist>>

\* let cli = { <guard>.get(&actor).unwrap().clone() };  The read guard is a
\* temporary: it is dropped at the end of the statement, or by the unwinding
\* when get() is None.  A panic under a read guard does not poison the lock.
PublishGet(t) ==
  /\ pc[t] = "pub_get"
  /\ t \in readers
  /\ LET k == PublishKey(arg[t].actor_id)
         c == get(actors, k) IN
       /\ actors' = AfterGet(actors, k)
       /\ IF c = NoClient
            THEN /\ net' = [net EXCEPT ![t].found = "absent"]
                 /\ readers' = UnwindRead(readers, t)
                 /\ poisoned' = ReadGuardPanic(poisoned)
                 /\ UNCHANGED local
                 /\ ret' = [ret EXCEPT ![t] = Panic]
                 /\ pc' = [pc EXCEPT ![t] = "done"]
            ELSE /\ net' = [net EXCEPT ![t].found = "present", ![t].got = c]
                 /\ readers' = DropRead(readers, t)
                 /\ local' = [local EXCEPT ![t].cli = c]
                 /\ pc' = [pc EXCEPT ![t] = "pub_list"]
                 /\ UNCHANGED <<poisoned, ret>>
  /\ UNCHANGED <<writer, nextClient, arg, hist>>

\* The client a backend call of task t goes through: cli, the handler's own
\* clone of the registry's client.
\* CallClient_registry: the call goes through whatever the registry holds now.
CallClient_registry(t) == get(actors, DEFAULT_ACTOR_NAME)

CallClient(t) == local[t].cli

\* let qurls = cli.list_queues().send().await.unwrap().clone();
\* let qurl = qurls.queue_urls().unwrap().first().unwrap();
ResolveQueue(out) ==
  IF out.status = "Ok" /\ Len(out.urls) > 0 THEN Head(out.urls) ELSE None

\* What the caller's side can tell about an enumeration.
ListStatus(out) ==
  IF out.status = "Ok" /\ Len(out.urls) = 0 THEN "Empty" ELSE out.status

\* Where a handler goes after its enumeration: on to its queue operation
\* (next) when a queue was resolved, else the unwrap panics and the call ends.
\* AfterList_retries: an enumeration that failed is issued again.
AfterList_retries(here, next, out) ==
  IF out.status = "Err" THEN here
  ELSE IF ResolveQueue(out) = None THEN "done" ELSE next

AfterList(here, next, out) ==
  IF ResolveQueue(out) = None THEN "done" ELSE next

PublishListQueues(t, outs) ==
  /\ pc[t] = "pub_list"
  /\ \E out \in outs :
       /\ net' = [net EXCEPT ![t].list = @ + 1, ![t].listOut = ListStatus(out),
                             ![t].cli = CallClient(t)]
       /\ IF ResolveQueue(out) = None
            THEN /\ ret' = [ret EXCEPT ![t] = Panic]
                 /\ pc' = [pc EXCEPT ![t] = AfterList("pub_list", "pub_send", out)]
                 /\ local' = [local EXCEPT ![t] = NoLocal]
            ELSE /\ local' = [local EXCEPT ![t].qurls = out.urls,
                                           ![t].qurl = ResolveQueue(out)]
                 /\ pc' = [pc EXCEPT ![t] = AfterList("pub_list", "pub_send", out)]
                 /\ UNCHANGED ret
  /\ UNCHANGED <<actors, writer, readers, poisoned, nextClient, arg, hist>>

\* match cli.send_message().message_body("ok".to_string()).queue_url(qurl.clone())
\*   .send().await { Ok(resp) => debug!(..), Err(e) => error!(..) }  Ok(())
PublishResult(out) == [kind |-> "Ok", reply |-> NoReply]

PublishSendMessage(t) ==
  /\ pc[t] = "pub_send"
  /\ \E out \in SendMessageOutputs :
       /\ net' = [net EXCEPT ![t].send = @ + 1, ![t].sendOut = out,
                             ![t].cli = CallClient(t),
                             ![t].sentBody = PublishBody(arg[t].body),
                             ![t].sentQueue = local[t].qurl]
       /\ ret' = [ret EXCEPT ![t] = PublishResult(out)]
  /\ pc' = [pc EXCEPT ![t] = "done"]
  /\ local' = [local EXCEPT ![t] = NoLocal]
  /\ UNCHANGED <<actors, writer, readers, poisoned, nextClient, arg, hist>>

\* -------------------------------------------------------------- request
\* self.actors.read().unwrap()
RequestRead(t) ==
  /\ pc[t] = "req_lock"
  /\ CanRead
  /\ IF poisoned
       THEN /\ pc' = [pc EXCEPT ![t] = "done"]
            /\ ret' = [ret EXCEPT ![t] = Panic]
            /\ UNCHANGED readers
       ELSE /\ pc' = [pc EXCEPT ![t] = "req_get"]
            /\ readers' = readers \cup {t}
            /\ UNCHANGED ret
  /\ UNCHANGED <<actors, writer, poisoned, nextClient, arg, local, net, hist>>

\* let cli = { <guard>.get(&actor).unwrap().clone() };
RequestGet(t) ==
  /\ pc[t] = "req_get"
  /\ t \in readers
  /\ LET k == RequestKey(arg[t].actor_id)
         c == get(actors, k) IN
       /\ actors' = AfterGet(actors, k)
       /\ IF c = NoClient
            THEN /\ net' = [net EXCEPT ![t].found = "absent"]
                 /\ readers' = UnwindRead(readers, t)
                 /\ poisoned' = ReadGuardPanic(poisoned)
                 /\ UNCHANGED local
                 /\ ret' = [ret EXCEPT ![t] = Panic]
                 /\ pc' = [pc EXCEPT ![t] = "done"]
            ELSE /\ net' = [net EXCEPT ![t].found = "present", ![t].got = c]
                 /\ readers' = DropRead(readers, t)
                 /\ local' = [local EXCEPT ![t].cli = c]
                 /\ pc' = [pc EXCEPT ![t] = "req_list"]
                 /\ UNCHANGED <<poisoned, ret>>
  /\ UNCHANGED <<writer, nextClient, arg, hist>>

RequestListQueues(t, outs) ==
  /\ pc[t] = "req_list"
  /\ \E out \in outs :
       /\ net' = [net EXCEPT ![t].list = @ + 1, ![t].listOut = ListStatus(out),
                             ![t].cli = CallClient(t)]
       /\ IF ResolveQueue(out) = None
            THEN /\ ret' = [ret EXCEPT ![t] = Panic]
                 /\ pc' = [pc EXCEPT ![t] = AfterList("req_list", "req_recv", out)]
                 /\ local' = [local EXCEPT ![t] = NoLocal]
            ELSE /\ local' = [local EXCEPT ![t].qurls = out.urls,
                                           ![t].qurl = ResolveQueue(out)]
                 /\ pc' = [pc EXCEPT ![t] = AfterList("req_list", "req_recv", out)]
                 /\ UNCHANGED ret
  /\ UNCHANGED <<actors, writer, readers, poisoned, nextClient, arg, hist>>

\* let msg = cli.receive_message().queue_url(qurl.clone()).send().await.unwrap();
\* Ok(ReplyMessage { subject: "hello".to_string(),
\*   body: msg.messages().unwrap().first().unwrap().body().unwrap()..., reply_to: None })
\* str::as_bytes().to_owned(): the UTF-8 bytes of a message body.
as_bytes(s) ==
  CASE s = "ok" -> <<111, 107>>
    [] s = "hi" -> <<104, 105>>
    [] OTHER -> <<>>

\* RequestResult_last: the reply is built from the last message of the batch.
RequestResult_last(subject, out) ==
  IF out.status = "Ok" /\ Len(out.messages) > 0 /\ out.messages[Len(out.messages)] # None
    THEN [kind |-> "Reply",
          reply |-> [subject |-> "hello",
                     body |-> as_bytes(out.messages[Len(out.messages)]),
                     reply_to |-> None]]
    ELSE Panic

RequestResult(subject, out) ==
  IF out.status = "Ok" /\ Len(out.messages) > 0 /\ Head(out.messages) # None
    THEN [kind |-> "Reply",
          reply |-> [subject |-> "hello",
                     body |-> as_bytes(Head(out.messages)),
                     reply_to |-> None]]
    ELSE Panic

RequestReceiveMessage(t, outs) ==
  /\ pc[t] = "req_recv"
  /\ \E out \in outs :
       /\ net' = [net EXCEPT ![t].recv = @ + 1, ![t].recvOut = out,
                             ![t].cli = CallClient(t),
                             ![t].recvQueue = local[t].qurl]
       /\ ret' = [ret EXCEPT ![t] = RequestResult(arg[t].subject, out)]
  /\ pc' = [pc EXCEPT ![t] = "done"]
  /\ local' = [local EXCEPT ![t] = NoLocal]
  /\ UNCHANGED <<actors, writer, readers, poisoned, nextClient, arg, hist>>

\* The caller has its result (or the task has aborted); the task slot is free.
Return(t) ==
  /\ pc[t] = "done"
  /\ pc' = [pc EXCEPT ![t] = "idle"]
  /\ arg' = [arg EXCEPT ![t] = NoArg]
  /\ ret' = [ret EXCEPT ![t] = Pending]
  /\ net' = [net EXCEPT ![t] = NoNet]
  /\ UNCHANGED <<actors, writer, readers, poisoned, nextClient, local, hist>>

\* One step of task t; inp gives the sets the host's messages and the
\* backend's answers are drawn from.
Step(t, inp) ==
  \/ CallPutLink(t)
  \/ CallDeleteLink(t)
  \/ CallShutdown(t)
  \/ CallPublish(t, inp.bodies)
  \/ CallRequest(t, inp.subjects)
  \/ PutLinkLoad(t)
  \/ PutLinkWrite(t)
  \/ PutLinkInsert(t)
  \/ DeleteLinkWrite(t)
  \/ DeleteLinkRemove(t)
  \/ ShutdownWrite(t)
  \/ ShutdownClear(t)
  \/ PublishRead(t)
  \/ PublishGet(t)
  \/ PublishListQueues(t, inp.lists)
  \/ PublishSendMessage(t)
  \/ RequestRead(t)
  \/ RequestGet(t)
  \/ RequestListQueues(t, inp.lists)
  \/ RequestReceiveMessage(t, inp.recvs)
  \/ Return(t)

\* Concurrent tasks; the backend lists at most one queue and delivers at
\* most one message.
ConcurrentInputs ==
  [bodies |-> {"hi"},
   subjects |-> {"s1"},
   lists |-> {o \in ListQueuesOutputs : Len(o.urls) = 0 \/ o.urls = <<"q1">>},
   recvs |-> {o \in ReceiveMessageOutputs :
                Len(o.messages) = 0 \/ o.messages \in {<<None>>, <<"ok">>}}]

Next == \E t \in Tasks : Step(t, ConcurrentInputs)

Spec == Init /\ [][Next]_vars

\* One call at a time (task 1 only), with every message and every backend
\* answer within the bounds.
CallInputs ==
  [bodies |-> Bodies,
   subjects |-> Subjects,
   lists |-> ListQueuesOutputs,
   recvs |-> ReceiveMessageOutputs]

NextCall == Step(1, CallInputs)

SpecCall == Init /\ [][NextCall]_vars

TypeOK ==
  /\ DOMAIN actors \subseteq Keys
  /\ \A k \in DOMAIN actors : actors[k] \in Clients
  /\ writer \in Tasks \cup {0}
  /\ readers \subseteq Tasks
  /\ poisoned \in BOOLEAN
  /\ nextClient \in 1..(MaxClients + 1)

\* ======================================================================
\* Properties
\* ======================================================================
Messaging == {"publish", "request"}

Finished(t) == pc[t] = "done"

\* The sole other actor identifier.
Others(a) == ActorIds \ {a}

\* C1: a publish or request whose registry look-up finds no entry for the
\* actor returns the typed failure NoConnection to its caller and issues no
\* backend call.
C1_MissingConnection ==
  \A t \in Tasks :
    (Finished(t) /\ arg[t].op \in Messaging /\ net[t].found = "absent")
      => /\ ret[t].kind = "NoConnection"
         /\ net[t].list = 0 /\ net[t].send = 0 /\ net[t].recv = 0

\* C2: once a link-up for actor a has completed and a link-down for a has
\* completed after it, with no link-up for a since, the registry has no
\* entry for a (neither under a nor under the key a look-up for a uses),
\* whatever link-ups and link-downs of other actors came before the
\* link-down.
C2_LinkLifecycle ==
  \A a \in ActorIds :
    (hist.life[a] = "down" /\ ~hist.otherUp[a])
      => /\ get(actors, a) = NoClient
         /\ get(actors, PublishKey(a)) = NoClient
         /\ get(actors, RequestKey(a)) = NoClient

\* C2 witness: A was linked up and then down while B's link-up had completed.
C2_Witness ==
  /\ hist.life["A"] = "down"
  /\ ~hist.otherUp["A"]
  /\ hist.life["B"] = "up"

\* C3: when the queue enumeration returns no queue, publish and request
\* return NoQueueAvailable and issue neither a send nor a receive.
C3_NoQueueAvailable ==
  \A t \in Tasks :
    (Finished(t) /\ arg[t].op \in Messaging /\ net[t].listOut \in {"Empty", "NoUrls"})
      => /\ ret[t].kind = "NoQueueAvailable"
         /\ net[t].send = 0 /\ net[t].recv = 0

\* C4: when the receive call returns zero messages, request returns
\* NoMessageAvailable; it neither returns a Reply nor aborts.
C4_NoMessageAvailable ==
  \A t \in Tasks :
    (/\ Finished(t) /\ arg[t].op = "request"
     /\ \/ net[t].recvOut.status = "NoMessages"
        \/ net[t].recvOut.status = "Ok" /\ Len(net[t].recvOut.messages) = 0)
      => ret[t].kind = "NoMessageAvailable"

\* C5: after a shutdown has completed, and as long as no link-up completes
\* after it, the registry is empty: a look-up finds nothing for any actor.
C5_ShutdownClearsAll ==
  hist.cleared =>
    /\ DOMAIN actors = {}
    /\ \A a \in ActorIds : get(actors, PublishKey(a)) = NoClient

\* C5 witness: shutdown completed after A and B had both been linked up.
C5_Witness ==
  /\ hist.cleared
  /\ hist.life["A"] = "up"
  /\ hist.life["B"] = "up"

\* C6: what a look-up finds for an actor is the effect of the last write
\* made for that actor: the client of its last link-up, or nothing after its
\* link-down (or a shutdown); writes for other actors do not change it.
C6_LastWriteWins ==
  \A a \in ActorIds :
    /\ hist.lastWrite[a] = "put" => get(actors, PublishKey(a)) = hist.lastClient[a]
    /\ hist.lastWrite[a] \in {"remove", "clear"} => get(actors, PublishKey(a)) = NoClient

\* C7: after link-ups for two distinct actors, with no link-down or shutdown
\* after them, the registry holds an entry keyed by each actor's own
\* identifier, with the client of that actor's link-up.
C7_KeyedByActorId ==
  \A a \in ActorIds : \A b \in Others(a) :
    (hist.lastWrite[a] = "put" /\ hist.lastWrite[b] = "put")
      => /\ a \in DOMAIN actors
         /\ get(actors, a) = hist.lastClient[a]

\* C8: the body publish hands to send_message is the body of the caller's
\* message, and the send goes to a queue of the backend's listing.
C8_ForwardsPayload ==
  \A t \in Tasks :
    (arg[t].op = "publish" /\ net[t].send > 0)
      => /\ net[t].sentBody = arg[t].body
         /\ net[t].sentQueue \in QueueUrls

\* C9: a publish or request during which a backend operation failed returns
\* BackendError; publish returns success only when the send was acknowledged.
C9_BackendFailuresSurfaced ==
  \A t \in Tasks :
    (Finished(t) /\ arg[t].op \in Messaging)
      => /\ (\/ net[t].listOut = "Err"
             \/ net[t].sendOut = "Err"
             \/ net[t].recvOut.status = "Err") => ret[t].kind = "BackendError"
         /\ (arg[t].op = "publish" /\ ret[t].kind = "Ok") => net[t].sendOut = "Ok"

\* C10: the registry write of delete_link(actor_id) leaves no entry under
\* actor_id, leaves the entry of every other key as it was, and leaves the
\* registry unchanged when it held no entry under actor_id.
C10_LinkDownFrame ==
  [][\A t \in Tasks :
       (pc[t] = "dl_remove" /\ pc'[t] = "done")
         => LET a == arg[t].actor_id IN
              /\ get(actors', a) = NoClient
              /\ \A k \in Keys \ {a} : get(actors', k) = get(actors, k)
              /\ (a \notin DOMAIN actors => actors' = actors)]_vars

\* C11: a link-up for actor a that completes while the registry still holds
\* the client of a's previous link-up (nothing was written in between)
\* leaves the set of keys as it was, with exactly one entry, and a look-up
\* for a finds the client created by this latest call.
C11_LinkUpIdempotent ==
  [][\A t \in Tasks :
       (pc[t] = "pl_insert" /\ pc'[t] = "done")
         => LET a == arg[t].actor_id IN
              (/\ hist.lastWrite[a] = "put"
               /\ get(actors, PublishKey(a)) = hist.lastClient[a])
                => /\ DOMAIN actors' = DOMAIN actors
                   /\ Cardinality(DOMAIN actors') = 1
                   /\ get(actors', PublishKey(a)) = local[t].client
                   /\ local[t].client # hist.lastClient[a]]_vars

\* C11 witness: a second put_link for A holds the write guard while the
\* registry holds the client of A's first link-up.
C11_Witness ==
  \E t \in Tasks :
    /\ pc[t] = "pl_insert"
    /\ arg[t].actor_id = "A"
    /\ hist.lastWrite["A"] = "put"
    /\ get(actors, PublishKey("A")) = hist.lastClient["A"]

\* C12: whenever a shutdown call ends, in whatever state it was issued
\* (after publish/request calls that aborted, after link-downs of absent
\* actors), it ends reporting success and leaves the registry empty.
C12_ShutdownNeverFails ==
  [][\A t \in Tasks :
       (arg[t].op = "shutdown" /\ pc[t] # "done" /\ pc'[t] = "done")
         => /\ ret'[t].kind = "Ok"
            /\ DOMAIN actors' = {}]_vars

\* C12 witness: a shutdown has reported success while another task's
\* publish or request had aborted at its look-up.
C12_Witness ==
  \E t \in Tasks, u \in Tasks :
    /\ Finished(t) /\ arg[t].op = "shutdown" /\ ret[t].kind = "Ok"
    /\ Finished(u) /\ arg[u].op \in Messaging
    /\ ret[u].kind = "Panic" /\ net[u].found = "absent"

\* Positions at which a task is suspended in an await on I/O: the
\* configuration load of put_link, list_queues, send_message, receive_message.
Suspended == {"pl_load", "pub_list", "pub_send", "req_list", "req_recv"}

\* C13: a task suspended in connection construction, list_queues,
\* send_message or receive_message holds neither the read nor the write
\* guard of the registry; put_link holds the write guard only once its
\* client is built, and a read guard is held only until the handle is copied.
C13_NoLockAcrossIO ==
  \A t \in Tasks :
    /\ pc[t] \in Suspended => (writer # t /\ t \notin readers)
    /\ (writer = t /\ arg[t].op = "put_link") => local[t].client # NoClient
    /\ t \in readers => (pc[t] \in {"pub_get", "req_get"} /\ local[t].cli = NoClient)

\* C13 witness: one task is suspended in send_message or receive_message
\* while another task holds the write guard.
C13_Witness ==
  \E t \in Tasks :
    /\ pc[t] \in {"pub_send", "req_recv"}
    /\ writer \in Tasks \ {t}

\* C14: a publish or request issues at most one list_queues, and that only
\* after its look-up found a client; at most one send_message (publish) or
\* one receive_message (request), and that only after an enumeration that
\* resolved a queue; a step that fails ends the call, and nothing is issued
\* again after a backend error.
C14_CallSequence ==
  \A t \in Tasks :
    arg[t].op \in Messaging =>
      /\ net[t].list <= 1 /\ net[t].send <= 1 /\ net[t].recv <= 1
      /\ arg[t].op = "publish" => net[t].recv = 0
      /\ arg[t].op = "request" => net[t].send = 0
      /\ net[t].list = 1 => net[t].found = "present"
      /\ net[t].send + net[t].recv >= 1 => (net[t].list = 1 /\ net[t].listOut = "Ok")
      /\ pc[t] \in {"pub_list", "req_list"} => net[t].list = 0
      /\ pc[t] \in {"pub_send", "req_recv"} => (net[t].list = 1 /\ net[t].send + net[t].recv = 0)
      /\ net[t].found = "absent" => (Finished(t) /\ net[t].list = 0)
      /\ net[t].listOut \in {"Err", "NoUrls", "Empty"}
           => (Finished(t) /\ net[t].send = 0 /\ net[t].recv = 0)
      /\ (net[t].sendOut # NotCalled \/ net[t].recvOut.status # NotCalled) => Finished(t)

\* C14 witness: a call has ended after its one enumeration failed.
C14_Witness ==
  \E t \in Tasks :
    /\ Finished(t) /\ arg[t].op \in Messaging
    /\ net[t].listOut = "Err" /\ net[t].list = 1

\* C15: no step of a publish or request changes the registry, whether the
\* call goes on, succeeds or fails; every change of the registry is the
\* write step of a put_link, a delete_link or a shutdown.
C15_OnlyControlSurfaceMutates ==
  [][/\ \A t \in Tasks :
          ((arg[t].op \in Messaging \/ arg'[t].op \in Messaging) /\ pc'[t] # pc[t])
            => actors' = actors
     /\ actors' # actors
          => \E t \in Tasks :
               /\ pc[t] \in {"pl_insert", "dl_remove", "sd_clear"}
               /\ pc'[t] = "done"]_vars

\* C15 witness: a publish or request has run to its end, with a result,
\* and the registry still holds the entry it looked up.
C15_Witness ==
  \E t \in Tasks :
    /\ Finished(t) /\ arg[t].op \in Messaging
    /\ ret[t].kind \in {"Ok", "Reply"}
    /\ DOMAIN actors # {}

\* C16: the registry never holds more than one entry, and only under the
\* constant key; the write of every put_link, whatever its actor, leaves
\* exactly that entry with its new client, and the write of every
\* delete_link, whatever its actor, leaves the registry empty, removing the
\* client of the latest link-up.
C16_SingleFixedActor ==
  [][/\ Cardinality(DOMAIN actors') <= 1
     /\ DOMAIN actors' \subseteq {DEFAULT_ACTOR_NAME}
     /\ \A t \in Tasks :
          /\ (pc[t] = "pl_insert" /\ pc'[t] = "done")
               => /\ DOMAIN actors' = {DEFAULT_ACTOR_NAME}
                  /\ actors'[DEFAULT_ACTOR_NAME] = local[t].client
          /\ (pc[t] = "dl_remove" /\ pc'[t] = "done")
               => DOMAIN actors' = {}]_vars

\* C16 witness: A's last write is its link-up, B was never linked, and B's
\* link-down has left the registry empty.
C16_Witness ==
  /\ hist.lastWrite["A"] = "put"
  /\ hist.lastWrite["B"] = "remove"
  /\ hist.life["B"] = "never"
  /\ DOMAIN actors = {}

\* C17: a request whose receive returns one or more messages, the first
\* with a body, returns a Reply whose payload is the bytes of the first
\* message's body, whose subject is the fixed "hello" whatever the
\* request's subject, and which has no reply-to; the call issues one
\* receive_message and no other queue operation.
C17_ReplyConstruction ==
  \A t \in Tasks :
    (Finished(t) /\ arg[t].op = "request")
      => LET out == net[t].recvOut IN
           /\ (out.status = "Ok" /\ Len(out.messages) > 0 /\ Head(out.messages) # None)
                <=> ret[t].kind = "Reply"
           /\ ret[t].kind = "Reply"
                => /\ ret[t].reply.body = as_bytes(Head(out.messages))
                   /\ ret[t].reply.subject = "hello"
                   /\ ret[t].reply.reply_to = None
                   /\ net[t].recv = 1 /\ net[t].send = 0

\* C17 witness: a request with subject "s1" got a Reply from a batch of two
\* messages with different bodies.
C17_Witness ==
  \E t \in Tasks :
    /\ Finished(t) /\ arg[t].op = "request" /\ arg[t].subject = "s1"
    /\ ret[t].kind = "Reply"
    /\ Len(net[t].recvOut.messages) = 2
    /\ net[t].recvOut.messages[1] # net[t].recvOut.messages[2]

\* C18: once a publish or request has copied its client out of the
\* registry, it keeps that copy whatever happens to the registry entry: while
\* the call is in flight its cli is the client it copied, every backend call
\* it issues goes through that client, and it never ends as a call that
\* found no connection.
C18_KeepsOwnHandle ==
  \A t \in Tasks :
    (arg[t].op \in Messaging /\ net[t].found = "present")
      => /\ net[t].got # NoClient
         /\ pc[t] \in {"pub_list", "pub_send", "req_list", "req_recv"}
              => local[t].cli = net[t].got
         /\ net[t].list >= 1 => net[t].cli = net[t].got
         /\ Finished(t) => net[t].list = 1

\* C18 witness: a call has issued its send or receive through the client it
\* copied, and the registry does not hold that client any more.
C18_Witness ==
  \E t \in Tasks :
    /\ Finished(t) /\ arg[t].op \in Messaging
    /\ net[t].send + net[t].recv = 1
    /\ net[t].cli = net[t].got
    /\ get(actors, PublishKey(arg[t].actor_id)) # net[t].got

\* C19: calls that abort leave the registry lock usable: the lock is never
\* poisoned, a task that has ended or aborted holds no guard, and a guard is
\* held only by a task at its own registry step, which it can always take.
C19_LockStaysUsable ==
  /\ ~poisoned
  /\ \A t \in Tasks :
       /\ pc[t] \in {"idle", "done"} => (writer # t /\ t \notin readers)
       /\ writer = t => pc[t] \in {"pl_insert", "dl_remove", "sd_clear"}
       /\ t \in readers => pc[t] \in {"pub_get", "req_get"}

\* C19 witness: after a publish or request aborted at its look-up, another
\* task has acquired the write guard.
C19_Witness ==
  \E t \in Tasks :
    /\ Finished(t) /\ arg[t].op \in Messaging
    /\ ret[t].kind = "Panic" /\ net[t].found = "absent"
    /\ writer \in Tasks \ {t}

====
